---- MODULE Spec2Model ----
(***************************************************************************)
(* Stop-and-wait RDT simulator (src/rdt): the event scheduler, the timers, *)
(* the unreliable channel, the two protocol entities and the dispatch loop *)
(* of Simulator.run.                                                       *)
(*                                                                         *)
(* Simulated time is counted in units of 0.01 s (the smallest increment    *)
(* the code uses, the busy-retry delay of simulator.py:327).  Probabilities*)
(* and the draws of random.random() are counted in thousandths.            *)
(* Characters are their ord() codes, strings are sequences of codes.       *)
(***************************************************************************)
EXTENDS Integers, Sequences, FiniteSets, TLC

\* ---------------------------------------------------------------------------
\* Program constants
\* ---------------------------------------------------------------------------
TIMER_INTERRUPT == 0
FROM_LAYER5 == 1
FROM_LAYER3 == 2
GUI_ANIMATE == 3
NETWORK_EFFECT == 4

A == 0
B == 1

\* Python's None, for the integer fields that start as None
NoneVal == -1

\* timer.start(10.0)
TimerIncrement == 1000
\* random.uniform(0.5, 5)
TransitMin == 50
TransitMax == 500
\* event.time = max_arrival_time + 0.01
RetryDelay == 1
\* pkt_to_corrupt.set_seqnum(999999)
CorruptSeqnum == 999999
\* x < 0.75, x < 0.875
PayloadModeBelow == 750
SeqnumModeBelow == 875
\* string.ascii_lowercase[self.msg_count % 26]
AlphabetLen == 26
OrdLowerA == 97
\* "ACK"
OrdA == 65
OrdC == 67
OrdK == 75
ACK == <<OrdA, OrdC, OrdK>>
\* GuiVisualizer.animation_network_steps
AnimationNetworkSteps == 2
\* main.py: args.pause = 2.0 with an observer
DefaultPause == 200
\* test_rdt.py: self.msgs = 50, loss 0.1, corruption 0.2
TestMsgs == 50
TestLoss == 100
TestCorrupt == 200
\* main.py: a probability of 1.0, and the default pause without GUI or TUI
One == 1000
TerminalPause == 100

\* ---------------------------------------------------------------------------
\* Bounds of the model
\* ---------------------------------------------------------------------------
\* n_sim_msgs ranges over 0..MaxMsgs in Spec
MaxMsgs == 2
\* at most this many packets are lost or corrupted in one run
MaxImpair == 1
\* a long inter-arrival draw of random.expovariate, longer than a timeout
LongGap == 2500
\* a short inter-arrival draw, shorter than a timeout
ShortGap == 990
\* payloads of up to this many characters are fed to Pkt alone
MaxPayloadLen == 2
\* at most this many calls of a Timer outside the handlers in one run
MaxCalls == 2
\* an observer pause long enough for several timeouts during one transit
LongPause == 2800
\* an event type that is none of the five the loop knows
UnknownKind == 5
\* records logged in a run of the two threads, and step requests in wait
MaxRecords == 4
MaxWaits == 2

\* the draws of random.random() enumerated, in thousandths: for the test
\* against a probability, the least draw and a draw equal to the probability;
\* for the corruption mode, the least draw of each of the three modes
Draws(prob) == {0, prob}
ModeChoices == {0, PayloadModeBelow, SeqnumModeBelow}
\* the draws of random.choice(string.ascii_letters) enumerated
LetterChoices == {OrdLowerA, OrdA, OrdK}

Max(S) == CHOOSE x \in S : \A y \in S : y <= x

RECURSIVE SumSeq(_)
SumSeq(s) == IF s = <<>> THEN 0 ELSE s[1] + SumSeq(Tail(s))

\* ---------------------------------------------------------------------------
\* rdt.Pkt
\* ---------------------------------------------------------------------------
NewPkt == [seqnum |-> NoneVal, checksum |-> NoneVal, payload |-> <<>>]

CalcChecksum(p) == [p EXCEPT !.checksum = SumSeq(p.payload) + p.seqnum]

\* a verification that leaves the sequence number out of the sum
VerifyChecksumNoSeq(p) == SumSeq(p.payload) = p.checksum

VerifyChecksum(p) == SumSeq(p.payload) + p.seqnum = p.checksum

\* ---------------------------------------------------------------------------
\* simulator.Event and the heap of events (heapq on Event.__lt__)
\* ---------------------------------------------------------------------------
\* pkt: the id of the packet object the event refers to (0: none)
\* arr: for NETWORK_EFFECT, the id of the arrival event it refers to
\* pos: for GUI_ANIMATE, the animation position
NewEvent(id, time, type, entity, pkt, arr, pos) ==
    [id |-> id, time |-> time, type |-> type, entity |-> entity,
     pkt |-> pkt, arr |-> arr, pos |-> pos, cancelled |-> FALSE]

NoEvent == NewEvent(0, 0, NoneVal, NoneVal, 0, 0, 0)

\* an order that puts the latest event first
EventGt(x, y) == x.time > y.time

EventLt(x, y) == x.time < y.time

\* (in the heap operators the arguments are bound to their values h, item, R,
\* p by a one-element set: they are computed once)
\* heapq._siftdown, positions counted from 1
RECURSIVE SiftDown(_, _, _, _)
SiftDown(heap, startpos, pos, newitem) ==
    CHOOSE r \in {IF pos > startpos /\ EventLt(item, h[pos \div 2])
                  THEN SiftDown([h EXCEPT ![pos] = h[pos \div 2]], startpos, pos \div 2, item)
                  ELSE [h EXCEPT ![pos] = item] : h \in {heap}, item \in {newitem}} : TRUE

\* heapq._siftup, positions counted from 1
RECURSIVE SiftUp(_, _, _)
SiftUp(heap, pos, newitem) ==
    CHOOSE r \in {
        LET childpos == 2 * pos
            rightpos == childpos + 1
            endpos == Len(h)
        IN  IF childpos <= endpos
            THEN LET c == IF rightpos <= endpos /\ ~EventLt(h[childpos], h[rightpos])
                          THEN rightpos ELSE childpos
                 IN  SiftUp([h EXCEPT ![pos] = h[c]], c, item)
            ELSE SiftDown(h, 1, pos, item) : h \in {heap}, item \in {newitem}} : TRUE

HeapPush(heap, item) == SiftDown(Append(heap, item), 1, Len(heap) + 1, item)

HeapPop(heap) ==
    LET lastelt == heap[Len(heap)]
        rest == SubSeq(heap, 1, Len(heap) - 1)
    IN  IF rest # <<>>
        THEN [item |-> rest[1], heap |-> SiftUp([rest EXCEPT ![1] = lastelt], 1, lastelt)]
        ELSE [item |-> lastelt, heap |-> <<>>]

\* event.cancelled = True on the event object with this id, if it is queued
Cancel(heap, id) ==
    [i \in DOMAIN heap |->
        IF heap[i].id = id THEN [heap[i] EXCEPT !.cancelled = TRUE] ELSE heap[i]]

\* the packet objects still referenced by a queued event
LivePkts(heap, pkts) ==
    [k \in {heap[i].pkt : i \in DOMAIN heap} \cap DOMAIN pkts |-> pkts[k]]

\* ---------------------------------------------------------------------------
\* State
\* ---------------------------------------------------------------------------
VARIABLES
    pc,               \* "init": constructed; "loop": in the while loop of run; "done"
    n_sim_msgs, loss_prob, corrupt_prob,
    visualizer,       \* TRUE when an observer is attached
    pause,            \* the observer's get_pause()
    events,           \* the heap, as heapq lays it out
    pkts,             \* packet objects in the medium, by id
    sent, received,
    timer_A, timer_B, \* id of the entity's timer event, 0 for None
    msg_count, tolayer3_count, lost_count, corrupt_count,
    t,
    next_id,          \* identity of the next Event object created
    event,            \* run's local variable: the event being dispatched
    s_pkt, s_msg, waiting_for_ack, current_seqnum,   \* RDTSender
    expected_seqnum, previous_seqnum,                \* RDTReceiver
    rdt_send_ret,     \* what the last call of rdt_send by the driver returned
    delivered_pkt,    \* the packet of the last call of deliver_data
    last_rcv,         \* per entity, the id of the last packet dispatched to it
    timer_calls,      \* how many times an entity called its Timer outside the handlers
    timer_call,       \* the last such call
    arrivals_made,    \* how many times generate_next_arrival was called
    event_queue,      \* the deque shared by GuiVisualizer and GuiApp
    n_logged,         \* how many records log_event has appended so far
    d_pc,             \* the simulation thread: "app_init", "poll", "dispatch"
    is_stepping_now,  \* run's local variable
    gui_up,           \* TRUE once GuiApp.__init__ has run
    is_paused, is_stepping,
    event_history, current_event_index,
    pause_button, step_forward_button, step_back_button,   \* TRUE for tk.NORMAL
    wait_pending      \* scheduled calls of _wait_for_step_event

sim_vars == <<events, pkts, sent, received, timer_A, timer_B, msg_count,
              tolayer3_count, lost_count, corrupt_count, t, next_id, event>>
cfg_vars == <<n_sim_msgs, loss_prob, corrupt_prob, visualizer, pause>>
rdt_vars == <<s_pkt, s_msg, waiting_for_ack, current_seqnum,
              expected_seqnum, previous_seqnum>>
obs_vars == <<rdt_send_ret, delivered_pkt, last_rcv, timer_calls, timer_call,
              arrivals_made>>
thread_vars == <<event_queue, n_logged, d_pc, is_stepping_now>>
app_vars == <<gui_up, is_paused, is_stepping, event_history, current_event_index,
              pause_button, step_forward_button, step_back_button, wait_pending>>
gui_vars == <<thread_vars, app_vars>>
vars == <<pc, cfg_vars, sim_vars, rdt_vars, obs_vars, gui_vars>>

\* The mutable state as one record, for the operators below
State ==
    [events |-> events, pkts |-> pkts, sent |-> sent, received |-> received,
     timer_A |-> timer_A, timer_B |-> timer_B, msg_count |-> msg_count,
     tolayer3_count |-> tolayer3_count, lost_count |-> lost_count,
     corrupt_count |-> corrupt_count, t |-> t, next_id |-> next_id, event |-> event,
     s_pkt |-> s_pkt, s_msg |-> s_msg, waiting_for_ack |-> waiting_for_ack,
     current_seqnum |-> current_seqnum, expected_seqnum |-> expected_seqnum,
     previous_seqnum |-> previous_seqnum, rdt_send_ret |-> rdt_send_ret,
     delivered_pkt |-> delivered_pkt, last_rcv |-> last_rcv,
     timer_calls |-> timer_calls, timer_call |-> timer_call,
     arrivals_made |-> arrivals_made]

\* The assignment of a state record to the variables
Becomes(S) ==
    \E R \in {S} :
        /\ events' = R.events
        /\ pkts' = LivePkts(R.events, R.pkts)
        /\ sent' = R.sent
        /\ received' = R.received
        /\ timer_A' = R.timer_A
        /\ timer_B' = R.timer_B
        /\ msg_count' = R.msg_count
        /\ tolayer3_count' = R.tolayer3_count
        /\ lost_count' = R.lost_count
        /\ corrupt_count' = R.corrupt_count
        /\ t' = R.t
        /\ next_id' = R.next_id
        /\ event' = R.event
        /\ s_pkt' = R.s_pkt
        /\ s_msg' = R.s_msg
        /\ waiting_for_ack' = R.waiting_for_ack
        /\ current_seqnum' = R.current_seqnum
        /\ expected_seqnum' = R.expected_seqnum
        /\ previous_seqnum' = R.previous_seqnum
        /\ rdt_send_ret' = R.rdt_send_ret
        /\ delivered_pkt' = R.delivered_pkt
        /\ last_rcv' = R.last_rcv
        /\ timer_calls' = R.timer_calls
        /\ timer_call' = R.timer_call
        /\ arrivals_made' = R.arrivals_made

\* ---------------------------------------------------------------------------
\* simulator.Simulator: scheduler, timers, channel
\* ---------------------------------------------------------------------------
\* (the state and the event are bound to their values, to be computed once)
InsertEvent(S, e) ==
    CHOOSE r \in {[R EXCEPT !.events = HeapPush(@, ev)] : R \in {S}, ev \in {e}} : TRUE

\* x: the draw of random.expovariate
GenerateNextArrival(S, x) ==
    InsertEvent([S EXCEPT !.next_id = @ + 1, !.arrivals_made = @ + 1],
                NewEvent(S.next_id, S.t + x, FROM_LAYER5, A, 0, 0, 0))

\* a pop that does not look at the cancelled flag
GetNextEventNoSkip(S) ==
    IF S.events = <<>>
    THEN [S EXCEPT !.event = NoEvent]
    ELSE LET p == HeapPop(S.events)
         IN  [S EXCEPT !.events = p.heap, !.t = p.item.time, !.event = p.item]

\* heappop until an event that is not cancelled; S.event is NoEvent when there is none
RECURSIVE GetNextEvent(_)
GetNextEvent(S) ==
    IF S.events = <<>>
    THEN [S EXCEPT !.event = NoEvent]
    ELSE CHOOSE r \in {IF ~p.item.cancelled
                       THEN [R EXCEPT !.events = p.heap, !.t = p.item.time, !.event = p.item]
                       ELSE GetNextEvent([R EXCEPT !.events = p.heap])
                       : R \in {S}, p \in {HeapPop(S.events)}} : TRUE

\* a loop that ends one message early
CheckEndOneEarly(S) == Len(S.events) = 0 \/ n_sim_msgs <= S.msg_count + 1

\* a loop that ends when the quota has been delivered
CheckEndDelivered(S) == Len(S.events) = 0 \/ n_sim_msgs = Len(S.received)

CheckEnd(S) == Len(S.events) = 0 \/ n_sim_msgs = S.msg_count

\* a stop that clears the slot and leaves the event as it is
StopTimerNoCancel(S, AorB) ==
    IF AorB = A THEN [S EXCEPT !.timer_A = 0] ELSE [S EXCEPT !.timer_B = 0]

StopTimer(S, AorB) ==
    LET timer_to_stop == IF AorB = A THEN S.timer_A ELSE S.timer_B
        S1 == IF AorB = A THEN [S EXCEPT !.timer_A = 0] ELSE [S EXCEPT !.timer_B = 0]
    IN  IF timer_to_stop # 0
        THEN [S1 EXCEPT !.events = Cancel(@, timer_to_stop)]
        ELSE S1

\* a start that replaces a timer already running
StartTimerNoCheck(S, AorB, increment) ==
    LET newevent == NewEvent(S.next_id, S.t + increment, TIMER_INTERRUPT, AorB, 0, 0, 0)
        S1 == IF AorB = A THEN [S EXCEPT !.timer_A = newevent.id, !.next_id = @ + 1]
                          ELSE [S EXCEPT !.timer_B = newevent.id, !.next_id = @ + 1]
    IN  InsertEvent(S1, newevent)

StartTimer(S, AorB, increment) ==
    LET active_timer == IF AorB = A THEN S.timer_A ELSE S.timer_B
        newevent == NewEvent(S.next_id, S.t + increment, TIMER_INTERRUPT, AorB, 0, 0, 0)
        S1 == IF AorB = A THEN [S EXCEPT !.timer_A = newevent.id, !.next_id = @ + 1]
                          ELSE [S EXCEPT !.timer_B = newevent.id, !.next_id = @ + 1]
    IN  IF active_timer # 0 THEN S ELSE InsertEvent(S1, newevent)

\* the for loop of tolayer3: the time of the last queued arrival for the
\* destination, in the order the heap's list holds them
LastTime(heap, now, entity) ==
    LET hits == {i \in DOMAIN heap : heap[i].type = FROM_LAYER3 /\ heap[i].entity = entity}
    IN  IF hits = {} THEN now ELSE heap[Max(hits)].time

\* the for loops that schedule GUI_ANIMATE events, steps i..animation_network_steps
RECURSIVE InsertAnimations(_, _, _, _, _)
InsertAnimations(S, AorB, mypkt, step_interval, i) ==
    IF i > AnimationNetworkSteps
    THEN S
    ELSE InsertAnimations(
            InsertEvent([S EXCEPT !.next_id = @ + 1],
                        NewEvent(S.next_id, S.t + i * step_interval, GUI_ANIMATE, AorB, mypkt, 0,
                                 IF AorB = A THEN i ELSE AnimationNetworkSteps - i)),
            AorB, mypkt, step_interval, i + 1)

\* a channel that keeps the sender's packet object instead of a copy: every
\* packet of the sender still referenced by the queue is that one object
Tolayer3Shared(S, AorB, packet, transit) ==
    LET mypkt == S.tolayer3_count + 1
        dest == (AorB + 1) % 2
        last_time == LastTime(S.events, S.t, dest)
        step_interval == pause \div 2
        total_duration == step_interval * (AnimationNetworkSteps + 1)
        arrival_time == IF visualizer THEN last_time + total_duration
                                      ELSE last_time + transit
        arrival_event == NewEvent(S.next_id, arrival_time, FROM_LAYER3, dest, mypkt, 0, 0)
        mine == {S.events[i].pkt : i \in {j \in DOMAIN S.events :
                     S.events[j].type = FROM_LAYER3 /\ S.events[j].entity = B}}
        S1 == [S EXCEPT !.tolayer3_count = @ + 1,
                        !.pkts = (mypkt :> [seqnum |-> packet.seqnum,
                                            payload |-> packet.payload,
                                            checksum |-> packet.checksum]) @@
                                 [k \in DOMAIN @ |->
                                     IF AorB = A /\ k \in mine
                                     THEN [seqnum |-> packet.seqnum,
                                           payload |-> packet.payload,
                                           checksum |-> packet.checksum]
                                     ELSE @[k]],
                        !.next_id = @ + 1]
        S2 == IF visualizer THEN InsertAnimations(S1, AorB, mypkt, step_interval, 1) ELSE S1
        transit_duration == arrival_time - S.t
        network_effect_event ==
            NewEvent(S2.next_id, S.t + transit_duration \div 2, NETWORK_EFFECT, AorB,
                     mypkt, arrival_event.id, 0)
        S3 == InsertEvent([S2 EXCEPT !.next_id = @ + 1], network_effect_event)
    IN  InsertEvent(S3, arrival_event)

\* a channel that puts the network effect half a transit duration after the
\* send, whatever the arrival time
Tolayer3HalfTransit(S, AorB, packet, transit) ==
    LET mypkt == S.tolayer3_count + 1
        dest == (AorB + 1) % 2
        last_time == LastTime(S.events, S.t, dest)
        step_interval == pause \div 2
        total_duration == step_interval * (AnimationNetworkSteps + 1)
        arrival_time == IF visualizer THEN last_time + total_duration
                                      ELSE last_time + transit
        arrival_event == NewEvent(S.next_id, arrival_time, FROM_LAYER3, dest, mypkt, 0, 0)
        S1 == [S EXCEPT !.tolayer3_count = @ + 1,
                        !.pkts = (mypkt :> [seqnum |-> packet.seqnum,
                                            payload |-> packet.payload,
                                            checksum |-> packet.checksum]) @@ @,
                        !.next_id = @ + 1]
        S2 == IF visualizer THEN InsertAnimations(S1, AorB, mypkt, step_interval, 1) ELSE S1
        transit_duration == arrival_time - last_time
        network_effect_event ==
            NewEvent(S2.next_id, S.t + transit_duration \div 2, NETWORK_EFFECT, AorB,
                     mypkt, arrival_event.id, 0)
        S3 == InsertEvent([S2 EXCEPT !.next_id = @ + 1], network_effect_event)
    IN  InsertEvent(S3, arrival_event)

\* transit: the draw of random.uniform(0.5, 5), used without observer
Tolayer3(S, AorB, packet, transit) ==
    LET mypkt == S.tolayer3_count + 1
        dest == (AorB + 1) % 2
        last_time == LastTime(S.events, S.t, dest)
        step_interval == pause \div 2
        total_duration == step_interval * (AnimationNetworkSteps + 1)
        arrival_time == IF visualizer THEN last_time + total_duration
                                      ELSE last_time + transit
        arrival_event == NewEvent(S.next_id, arrival_time, FROM_LAYER3, dest, mypkt, 0, 0)
        S1 == [S EXCEPT !.tolayer3_count = @ + 1,
                        !.pkts = (mypkt :> [seqnum |-> packet.seqnum,
                                            payload |-> packet.payload,
                                            checksum |-> packet.checksum]) @@ @,
                        !.next_id = @ + 1]
        S2 == IF visualizer THEN InsertAnimations(S1, AorB, mypkt, step_interval, 1) ELSE S1
        transit_duration == arrival_time - S.t
        network_effect_event ==
            NewEvent(S2.next_id, S.t + transit_duration \div 2, NETWORK_EFFECT, AorB,
                     mypkt, arrival_event.id, 0)
        S3 == InsertEvent([S2 EXCEPT !.next_id = @ + 1], network_effect_event)
    IN  InsertEvent(S3, arrival_event)

Tolayer5(S, AorB, msg) == [S EXCEPT !.received = Append(@, msg[Len(msg)])]

\* ---------------------------------------------------------------------------
\* rdt.RDTSender, rdt.RDTReceiver
\* ---------------------------------------------------------------------------
\* a sender that sends although it awaits an acknowledgment
RdtSendNoBusyCheck(S, msg, transit) ==
    LET p == CalcChecksum([S.s_pkt EXCEPT !.seqnum = S.current_seqnum,
                                          !.payload = msg])
        S1 == [S EXCEPT !.waiting_for_ack = TRUE, !.s_pkt = p, !.s_msg = msg]
        S2 == Tolayer3(S1, A, p, transit)
        S3 == StartTimer(S2, A, TimerIncrement)
    IN  [S3 EXCEPT !.rdt_send_ret = TRUE]

\* S.rdt_send_ret is the value returned
RdtSend(S, msg, transit) ==
    IF S.waiting_for_ack
    THEN [S EXCEPT !.rdt_send_ret = FALSE]
    ELSE LET p == CalcChecksum([S.s_pkt EXCEPT !.seqnum = S.current_seqnum,
                                               !.payload = msg])
             S1 == [S EXCEPT !.waiting_for_ack = TRUE, !.s_pkt = p, !.s_msg = msg]
             S2 == Tolayer3(S1, A, p, transit)
             S3 == StartTimer(S2, A, TimerIncrement)
         IN  [S3 EXCEPT !.rdt_send_ret = TRUE]

\* a sender that keeps its sequence number on an acknowledgment
SenderRdtRcvNoToggle(S, pkt) ==
    LET p == S.pkts[pkt]
    IN  IF p.payload = ACK /\ p.seqnum = S.current_seqnum /\ VerifyChecksum(p)
        THEN StopTimer([S EXCEPT !.waiting_for_ack = FALSE], A)
        ELSE S

\* a sender that accepts an acknowledgment without verifying its checksum
SenderRdtRcvNoVerify(S, pkt) ==
    LET p == S.pkts[pkt]
    IN  IF p.payload = ACK /\ p.seqnum = S.current_seqnum
        THEN StopTimer([S EXCEPT !.current_seqnum = 1 - @, !.waiting_for_ack = FALSE], A)
        ELSE S

\* pkt: the id of the packet object handed up
SenderRdtRcv(S, pkt) ==
    LET p == S.pkts[pkt]
    IN  IF p.payload = ACK /\ p.seqnum = S.current_seqnum /\ VerifyChecksum(p)
        THEN StopTimer([S EXCEPT !.current_seqnum = 1 - @, !.waiting_for_ack = FALSE], A)
        ELSE S

TimerInterrupt(S, transit) ==
    LET r == S.rdt_send_ret
    IN  [RdtSend([S EXCEPT !.waiting_for_ack = FALSE], S.s_msg, transit)
            EXCEPT !.rdt_send_ret = r]

\* a receiver that does not verify the checksum
ReceiverRdtRcvNoVerify(S, pkt, transit) ==
    LET p == S.pkts[pkt]
    IN  IF p.seqnum = S.expected_seqnum
        THEN LET S1 == Tolayer5([S EXCEPT !.delivered_pkt = p], B, p.payload)
                 ack == CalcChecksum([p EXCEPT !.payload = ACK])
                 S2 == [S1 EXCEPT !.expected_seqnum = 1 - @,
                                  !.previous_seqnum = p.seqnum,
                                  !.pkts[pkt] = ack]
             IN  Tolayer3(S2, B, ack, transit)
        ELSE IF p.seqnum = S.previous_seqnum
        THEN LET ack == CalcChecksum([p EXCEPT !.seqnum = S.previous_seqnum,
                                               !.payload = ACK])
             IN  Tolayer3([S EXCEPT !.pkts[pkt] = ack], B, ack, transit)
        ELSE S

\* a receiver that delivers a duplicate again
ReceiverRdtRcvRedeliver(S, pkt, transit) ==
    LET p == S.pkts[pkt]
    IN  IF (p.seqnum = S.expected_seqnum \/ p.seqnum = S.previous_seqnum)
           /\ VerifyChecksum(p)
        THEN LET S1 == Tolayer5([S EXCEPT !.delivered_pkt = p], B, p.payload)
                 ack == CalcChecksum([p EXCEPT !.payload = ACK])
                 S2 == [S1 EXCEPT !.expected_seqnum = 1 - p.seqnum,
                                  !.previous_seqnum = p.seqnum,
                                  !.pkts[pkt] = ack]
             IN  Tolayer3(S2, B, ack, transit)
        ELSE S

\* a receiver that keeps its expected sequence number after a delivery
ReceiverRdtRcvNoToggle(S, pkt, transit) ==
    LET p == S.pkts[pkt]
    IN  IF p.seqnum = S.expected_seqnum /\ VerifyChecksum(p)
        THEN LET S1 == Tolayer5([S EXCEPT !.delivered_pkt = p], B, p.payload)
                 ack == CalcChecksum([p EXCEPT !.payload = ACK])
                 S2 == [S1 EXCEPT !.previous_seqnum = p.seqnum,
                                  !.pkts[pkt] = ack]
             IN  Tolayer3(S2, B, ack, transit)
        ELSE IF p.seqnum = S.previous_seqnum /\ VerifyChecksum(p)
        THEN LET ack == CalcChecksum([p EXCEPT !.seqnum = S.previous_seqnum,
                                               !.payload = ACK])
             IN  Tolayer3([S EXCEPT !.pkts[pkt] = ack], B, ack, transit)
        ELSE S

ReceiverRdtRcv(S, pkt, transit) ==
    LET p == S.pkts[pkt]
    IN  IF p.seqnum = S.expected_seqnum /\ VerifyChecksum(p)
        THEN LET S1 == Tolayer5([S EXCEPT !.delivered_pkt = p], B, p.payload)
                 ack == CalcChecksum([p EXCEPT !.payload = ACK])
                 S2 == [S1 EXCEPT !.expected_seqnum = 1 - @,
                                  !.previous_seqnum = p.seqnum,
                                  !.pkts[pkt] = ack]
             IN  Tolayer3(S2, B, ack, transit)
        ELSE IF p.seqnum = S.previous_seqnum /\ VerifyChecksum(p)
        THEN LET ack == CalcChecksum([p EXCEPT !.seqnum = S.previous_seqnum,
                                               !.payload = ACK])
             IN  Tolayer3([S EXCEPT !.pkts[pkt] = ack], B, ack, transit)
        ELSE S

\* ---------------------------------------------------------------------------
\* Simulator.run: the bodies of the dispatch loop, on a state whose event is
\* the one get_next_event returned
\* ---------------------------------------------------------------------------
\* the latest arrival time of the packets in the medium, for the busy retry
MaxArrivalTime(heap, now) ==
    Max({now} \cup {heap[i].time : i \in {j \in DOMAIN heap : heap[j].type = FROM_LAYER3}})

\* a busy retry that puts the event back at the current time
RunFromLayer5RetryNow(S, x, transit) ==
    LET msg2give == <<OrdLowerA + (S.msg_count % AlphabetLen)>>
        S1 == IF S.event.entity = A THEN RdtSend(S, msg2give, transit) ELSE S
        retry == [S.event EXCEPT !.time = S1.t]
    IN  IF S.event.entity = A /\ ~S1.rdt_send_ret
        THEN InsertEvent(S1, retry)
        ELSE LET S2 == GenerateNextArrival(S1, x)
             IN  [S2 EXCEPT !.sent = Append(@, msg2give[Len(msg2give)]),
                            !.msg_count = @ + 1]

\* a loop that schedules the next arrival also when the sender was busy
RunFromLayer5ArrivalOnBusy(S, x, transit) ==
    LET msg2give == <<OrdLowerA + (S.msg_count % AlphabetLen)>>
        S1 == IF S.event.entity = A THEN RdtSend(S, msg2give, transit) ELSE S
        retry == [S.event EXCEPT !.time = MaxArrivalTime(S1.events, S1.t) + RetryDelay]
    IN  IF S.event.entity = A /\ ~S1.rdt_send_ret
        THEN InsertEvent(GenerateNextArrival(S1, x), retry)
        ELSE LET S2 == GenerateNextArrival(S1, x)
             IN  [S2 EXCEPT !.sent = Append(@, msg2give[Len(msg2give)]),
                            !.msg_count = @ + 1]

\* x: the draw of random.expovariate; transit: the draw of random.uniform
RunFromLayer5(S, x, transit) ==
    LET msg2give == <<OrdLowerA + (S.msg_count % AlphabetLen)>>
        S1 == IF S.event.entity = A THEN RdtSend(S, msg2give, transit) ELSE S
        retry == [S.event EXCEPT !.time = MaxArrivalTime(S1.events, S1.t) + RetryDelay]
    IN  IF S.event.entity = A /\ ~S1.rdt_send_ret
        THEN InsertEvent(S1, retry)
        ELSE LET S2 == GenerateNextArrival(S1, x)
             IN  [S2 EXCEPT !.sent = Append(@, msg2give[Len(msg2give)]),
                            !.msg_count = @ + 1]

RunFromLayer3(S, transit) ==
    LET S1 == [S EXCEPT !.last_rcv[S.event.entity] = S.event.pkt]
    IN  IF S.event.entity = A
        THEN SenderRdtRcv(S1, S.event.pkt)
        ELSE ReceiverRdtRcv(S1, S.event.pkt, transit)

\* a loop that leaves the fired timer in the sender's slot
RunTimerInterruptNoClear(S, transit) ==
    IF S.event.entity = A
    THEN TimerInterrupt(S, transit)
    ELSE S

RunTimerInterrupt(S, transit) ==
    IF S.event.entity = A
    THEN TimerInterrupt([S EXCEPT !.timer_A = 0], transit)
    ELSE S

\* the payload with the character at pos (counted from 1) replaced
ReplaceChar(payload, pos, char) == [payload EXCEPT ![pos] = char]

\* the three corruption modes; x: the draw of random.random(); pos, char: the
\* draws of random.randint and random.choice of the payload mode
Corrupt(packet, x, pos, char) ==
    IF x < PayloadModeBelow /\ Len(packet.payload) > 0
    THEN [packet EXCEPT !.payload = ReplaceChar(@, pos, char)]
    ELSE IF x < SeqnumModeBelow
    THEN [packet EXCEPT !.seqnum = CorruptSeqnum]
    ELSE [packet EXCEPT !.checksum = IF @ = NoneVal THEN 1 ELSE @ + 1]

\* r1, r2: the draws of random.random() compared to the two probabilities
RunNetworkEffect(S, r1, r2, x, pos, char) ==
    IF r1 < loss_prob
    THEN [S EXCEPT !.lost_count = @ + 1, !.events = Cancel(@, S.event.arr)]
    ELSE IF r2 < corrupt_prob
    THEN [S EXCEPT !.corrupt_count = @ + 1,
                   !.pkts[S.event.pkt] = Corrupt(@, x, pos, char)]
    ELSE S

\* ---------------------------------------------------------------------------
\* Actions
\* ---------------------------------------------------------------------------
\* the draws of random.expovariate enumerated: a short and a long interval in
\* runs of up to MaxMsgs messages, a long one in longer runs
ArrivalChoices == IF n_sim_msgs <= MaxMsgs THEN {ShortGap, LongGap} ELSE {LongGap}
\* the draws of random.uniform(0.5, 5) enumerated: both end points in runs of up
\* to MaxMsgs messages, the least value and the middle one in longer runs
TransitChoices ==
    IF n_sim_msgs <= MaxMsgs THEN {TransitMin, TransitMax}
    ELSE {TransitMin, (TransitMin + TransitMax) \div 2}

\* the entities as their constructors leave them
InitEntities ==
    /\ s_pkt = [NewPkt EXCEPT !.seqnum = 0]
    /\ s_msg = <<>>
    /\ waiting_for_ack = FALSE
    /\ current_seqnum = 0
    /\ expected_seqnum = 0
    /\ previous_seqnum = NoneVal

NoCall == [op |-> "none", entity |-> NoneVal, increment |-> 0]

\* Simulator.__init__
InitSimulator ==
    /\ events = <<>>
    /\ pkts = <<>>
    /\ sent = <<>>
    /\ received = <<>>
    /\ timer_A = 0
    /\ timer_B = 0
    /\ msg_count = 0
    /\ tolayer3_count = 0
    /\ lost_count = 0
    /\ corrupt_count = 0
    /\ t = 0
    /\ next_id = 1
    /\ event = NoEvent
    /\ rdt_send_ret = TRUE
    /\ delivered_pkt = NewPkt
    /\ last_rcv = [e \in {A, B} |-> 0]
    /\ timer_calls = 0
    /\ timer_call = NoCall
    /\ arrivals_made = 0

\* the (loss, corruption) pairs explored: a perfect channel, and one that
\* loses and corrupts
Channels == {<<0, 0>>, <<TestLoss, TestCorrupt>>}

\* the (pause, loss, corruption) triples explored with an observer
GuiChannels ==
    {<<p, c[1], c[2]>> : p \in {0, DefaultPause}, c \in Channels}
        \cup {<<LongPause, 0, 0>>}

\* main.py creates the deque and the GuiVisualizer; no GuiApp yet: the
\* visualizer's is_paused and _should_step answer False
InitObserver ==
    /\ event_queue = <<>>
    /\ n_logged = 0
    /\ d_pc = "app_init"
    /\ is_stepping_now = FALSE
    /\ gui_up = FALSE
    /\ is_paused = FALSE
    /\ is_stepping = FALSE
    /\ event_history = <<>>
    /\ current_event_index = -1
    /\ pause_button = FALSE
    /\ step_forward_button = FALSE
    /\ step_back_button = FALSE
    /\ wait_pending = 0

\* runs without observer, of up to MaxMsgs messages
Init ==
    /\ n_sim_msgs \in 0..MaxMsgs
    /\ \E c \in Channels : loss_prob = c[1] /\ corrupt_prob = c[2]
    /\ visualizer = FALSE
    /\ pause = 0
    /\ pc = "init"
    /\ InitSimulator
    /\ InitObserver
    /\ InitEntities

\* runs with an observer attached, of up to MaxMsgs messages
InitGui ==
    /\ n_sim_msgs \in 0..MaxMsgs
    /\ visualizer = TRUE
    /\ \E c \in GuiChannels :
          pause = c[1] /\ loss_prob = c[2] /\ corrupt_prob = c[3]
    /\ pc = "init"
    /\ InitSimulator
    /\ InitObserver
    /\ InitEntities

\* the runs of tests/test_rdt.py: 50 messages, no observer, and the four
\* channels of test_unreliable_channels
InitTest ==
    /\ n_sim_msgs = TestMsgs
    /\ loss_prob \in {0, TestLoss}
    /\ corrupt_prob \in {0, TestCorrupt}
    /\ visualizer = FALSE
    /\ pause = 0
    /\ pc = "init"
    /\ InitSimulator
    /\ InitObserver
    /\ InitEntities

\* run, up to the loop
Start ==
    /\ pc = "init"
    /\ \E x \in ArrivalChoices : Becomes(GenerateNextArrival(State, x))
    /\ pc' = "loop"
    /\ UNCHANGED <<cfg_vars, gui_vars>>

\* the loop ends: check_end() holds, or get_next_event() returns None
Exit ==
    /\ pc = "loop"
    /\ \/ CheckEnd(State) /\ Becomes(State)
       \/ /\ ~CheckEnd(State)
          /\ GetNextEvent(State).event = NoEvent
          /\ Becomes(GetNextEvent(State))
    /\ pc' = "done"
    /\ UNCHANGED <<cfg_vars, gui_vars>>

\* one iteration that dispatches an event of the given type
Dispatching(type) ==
    /\ pc = "loop"
    /\ ~CheckEnd(State)
    /\ GetNextEvent(State).event.type = type

\* a draw below the probability is enumerated while the run may impair a packet
DrawAllowed(r, prob) == r < prob => lost_count + corrupt_count < MaxImpair

IterFromLayer5 ==
    /\ Dispatching(FROM_LAYER5)
    /\ \E x \in ArrivalChoices, transit \in TransitChoices :
       \E S \in {GetNextEvent(State)} :
          Becomes(RunFromLayer5(S, x, transit))
    /\ UNCHANGED <<pc, cfg_vars>>

\* the iterations of a run whose observer never pauses
DispatchFromLayer5 == IterFromLayer5 /\ UNCHANGED gui_vars

IterFromLayer3 ==
    /\ Dispatching(FROM_LAYER3)
    /\ \E transit \in TransitChoices :
       \E S \in {GetNextEvent(State)} :
          Becomes(RunFromLayer3(S, transit))
    /\ UNCHANGED <<pc, cfg_vars>>

DispatchFromLayer3 == IterFromLayer3 /\ UNCHANGED gui_vars

IterTimerInterrupt ==
    /\ Dispatching(TIMER_INTERRUPT)
    /\ \E transit \in TransitChoices :
       \E S \in {GetNextEvent(State)} :
          Becomes(RunTimerInterrupt(S, transit))
    /\ UNCHANGED <<pc, cfg_vars>>

DispatchTimerInterrupt == IterTimerInterrupt /\ UNCHANGED gui_vars

IterNetworkEffect ==
    /\ Dispatching(NETWORK_EFFECT)
    /\ \E S \in {GetNextEvent(State)} :
       \E payload \in {S.pkts[S.event.pkt].payload} :
           \E r1 \in Draws(loss_prob) :
           \E r2 \in IF r1 < loss_prob THEN {r1} ELSE Draws(corrupt_prob) :
           \E x \in IF r2 < corrupt_prob THEN ModeChoices ELSE {r2} :
           \E pos \in IF x < PayloadModeBelow THEN 1..Max({1, Len(payload)}) ELSE {1} :
           \E char \in IF x < PayloadModeBelow THEN LetterChoices ELSE {OrdA} :
              /\ DrawAllowed(r1, loss_prob)
              /\ DrawAllowed(r2, corrupt_prob)
              /\ Becomes(RunNetworkEffect(S, r1, r2, x, pos, char))
    /\ UNCHANGED <<pc, cfg_vars>>

DispatchNetworkEffect == IterNetworkEffect /\ UNCHANGED gui_vars

\* forwarded to the observer, no effect on the simulation
IterGuiAnimate ==
    /\ Dispatching(GUI_ANIMATE)
    /\ Becomes(GetNextEvent(State))
    /\ UNCHANGED <<pc, cfg_vars>>

DispatchGuiAnimate == IterGuiAnimate /\ UNCHANGED gui_vars

Next ==
    \/ Start
    \/ DispatchFromLayer5
    \/ DispatchFromLayer3
    \/ DispatchTimerInterrupt
    \/ DispatchNetworkEffect
    \/ Exit

NextGui ==
    \/ Next
    \/ DispatchGuiAnimate

\* ---------------------------------------------------------------------------
\* rdt.Pkt alone: a checksum is computed on a packet, then the channel's
\* copy of the packet is corrupted
\* ---------------------------------------------------------------------------
Payloads == UNION {[1..k -> LetterChoices] : k \in 0..MaxPayloadLen}

InitPkt ==
    /\ pc = "pkt"
    /\ n_sim_msgs = 0
    /\ loss_prob = 0
    /\ corrupt_prob = TestCorrupt
    /\ visualizer = FALSE
    /\ pause = 0
    /\ InitSimulator
    /\ InitObserver
    /\ \E q \in {0, 1}, pl \in Payloads :
          s_pkt = [NewPkt EXCEPT !.seqnum = q, !.payload = pl]
    /\ s_msg = <<>>
    /\ waiting_for_ack = FALSE
    /\ current_seqnum = 0
    /\ expected_seqnum = 0
    /\ previous_seqnum = NoneVal

PktCalcChecksum ==
    /\ pc = "pkt"
    /\ pc' = "calc"
    /\ Becomes([State EXCEPT !.s_pkt = CalcChecksum(@)])
    /\ UNCHANGED <<cfg_vars, gui_vars>>

\* the copy made by tolayer3 is kept by a queued arrival, and corrupted
PktCorrupt ==
    /\ pc = "calc"
    /\ pc' = "corrupted"
    /\ \E x \in ModeChoices, pos \in 1..Max({1, Len(s_pkt.payload)}), char \in LetterChoices :
          LET copy == [seqnum |-> s_pkt.seqnum, payload |-> s_pkt.payload,
                       checksum |-> s_pkt.checksum]
              arrival_event == NewEvent(next_id, TransitMin, FROM_LAYER3, B, 1, 0, 0)
          IN  Becomes([State EXCEPT !.pkts = 1 :> Corrupt(copy, x, pos, char),
                                    !.events = <<arrival_event>>,
                                    !.next_id = @ + 1,
                                    !.tolayer3_count = 1,
                                    !.corrupt_count = 1])
    /\ UNCHANGED <<cfg_vars, gui_vars>>

NextPkt ==
    \/ PktCalcChecksum
    \/ PktCorrupt

\* ---------------------------------------------------------------------------
\* The Timer helper called by an entity at other moments than RDTSender does
\* ---------------------------------------------------------------------------
InitTimer ==
    /\ n_sim_msgs \in 0..MaxMsgs
    /\ loss_prob = 0
    /\ corrupt_prob = 0
    /\ visualizer = FALSE
    /\ pause = 0
    /\ pc = "init"
    /\ InitSimulator
    /\ InitObserver
    /\ InitEntities

\* Timer.start between two iterations: by the receiver at any moment, by the
\* sender while its timer runs
CallStartTimer ==
    /\ pc = "loop"
    /\ timer_calls < MaxCalls
    /\ \E AorB \in {A, B}, increment \in {TimerIncrement, TimerIncrement \div 2} :
          /\ AorB = A => timer_A # 0
          /\ Becomes([StartTimer(State, AorB, increment) EXCEPT
                         !.timer_calls = @ + 1,
                         !.timer_call = [op |-> "start", entity |-> AorB,
                                         increment |-> increment]])
    /\ UNCHANGED <<pc, cfg_vars, gui_vars>>

NextTimer ==
    \/ Next
    \/ CallStartTimer

\* longer runs on the perfect channel, with the draws of the longer runs
InitStop ==
    /\ n_sim_msgs = MaxMsgs + 1
    /\ loss_prob = 0
    /\ corrupt_prob = 0
    /\ visualizer = FALSE
    /\ pause = 0
    /\ pc = "init"
    /\ InitSimulator
    /\ InitObserver
    /\ InitEntities

\* Timer.stop between two iterations, by either entity, with or without a
\* timer running
CallStopTimer ==
    /\ pc = "loop"
    /\ timer_calls < MaxCalls
    /\ \E AorB \in {A, B} :
          Becomes([StopTimer(State, AorB) EXCEPT
                      !.timer_calls = @ + 1,
                      !.timer_call = [op |-> "stop", entity |-> AorB, increment |-> 0]])
    /\ UNCHANGED <<pc, cfg_vars, gui_vars>>

NextStop ==
    \/ NextTimer
    \/ CallStopTimer

SpecStop == InitStop /\ [][NextStop]_vars

Spec == Init /\ [][Next]_vars

SpecPkt == InitPkt /\ [][NextPkt]_vars

SpecTimer == InitTimer /\ [][NextTimer]_vars

SpecGui == InitGui /\ [][NextGui]_vars

SpecTest == InitTest /\ [][Next]_vars

\* ---------------------------------------------------------------------------
\* main.py: the command line is checked, then the Simulator is constructed
\* ---------------------------------------------------------------------------
\* the (lossprob, corruptprob) pairs given on the command line
MainConfigs ==
    Channels \cup {<<One, 0>>, <<0, One>>,
                   <<One + TestLoss, TestCorrupt>>, <<TestLoss, One + TestCorrupt>>}

\* pc = "main": before the checks, no Simulator exists yet
InitMain ==
    /\ n_sim_msgs \in 0..MaxMsgs
    /\ \E c \in MainConfigs : loss_prob = c[1] /\ corrupt_prob = c[2]
    /\ visualizer = FALSE
    /\ pause = TerminalPause
    /\ pc = "main"
    /\ InitSimulator
    /\ InitObserver
    /\ InitEntities

\* a main that constructs the Simulator without checking
MainNoCheck ==
    /\ pc = "main"
    /\ pc' = "init"
    /\ UNCHANGED <<sim_vars, cfg_vars, rdt_vars, obs_vars, gui_vars>>

\* sys.exit(1) on a probability >= 1.0, else Simulator(...)
Main ==
    /\ pc = "main"
    /\ pc' = IF loss_prob >= One \/ corrupt_prob >= One THEN "rejected" ELSE "init"
    /\ UNCHANGED <<sim_vars, cfg_vars, rdt_vars, obs_vars, gui_vars>>

NextMain == Main \/ Next

SpecMain == InitMain /\ [][NextMain]_vars

\* ---------------------------------------------------------------------------
\* an event of a type the loop does not know, queued by insert_event before
\* the run starts
\* ---------------------------------------------------------------------------
InsertUnknown ==
    /\ pc = "init"
    /\ events = <<>>
    /\ \E time \in {0, LongGap} :
          Becomes(InsertEvent([State EXCEPT !.next_id = @ + 1],
                              NewEvent(next_id, time, UnknownKind, A, 0, 0, 0)))
    /\ UNCHANGED <<pc, cfg_vars, gui_vars>>

\* the else branch of the loop: a critical log line, and the loop goes on
DispatchUnknown ==
    /\ Dispatching(UnknownKind)
    /\ Becomes(GetNextEvent(State))
    /\ UNCHANGED <<pc, cfg_vars, gui_vars>>

NextPanic == Next \/ InsertUnknown \/ DispatchUnknown

SpecPanic == Init /\ [][NextPanic]_vars

\* ---------------------------------------------------------------------------
\* The simulation thread and the GUI thread around the shared deque.  A record
\* is identified by its rank in the order of the log_event calls.  The
\* simulation thread is kept to what it does to the deque and to the stepping
\* flag: any number of log_event calls in one iteration.
\* ---------------------------------------------------------------------------
InitObs ==
    /\ n_sim_msgs = MaxMsgs
    /\ loss_prob = TestLoss
    /\ corrupt_prob = 0
    /\ visualizer = TRUE
    /\ pause = DefaultPause
    /\ pc = "init"
    /\ InitSimulator
    /\ InitObserver
    /\ InitEntities

\* deque.pop(): the right end
PopRight(q) == [item |-> q[Len(q)], rest |-> SubSeq(q, 1, Len(q) - 1)]

\* deque.popleft()
PopLeft(q) == [item |-> Head(q), rest |-> Tail(q)]

\* event = popleft(); event_history.append(event); current_event_index += 1
PopToHistory ==
    /\ event_history' = Append(event_history, PopLeft(event_queue).item)
    /\ event_queue' = PopLeft(event_queue).rest
    /\ current_event_index' = current_event_index + 1

\* GuiVisualizer.log_event, called by run: the two APP_INIT records before the
\* loop, then the records of the event being dispatched
LogEvent ==
    /\ d_pc \in {"app_init", "dispatch"}
    /\ n_logged < MaxRecords
    /\ event_queue' = Append(event_queue, n_logged + 1)
    /\ n_logged' = n_logged + 1
    /\ d_pc' = IF d_pc = "app_init" /\ n_logged + 1 = 2 THEN "poll" ELSE d_pc
    /\ UNCHANGED <<is_stepping_now, app_vars>>

\* the head of an iteration: paused and no step asked, sleep and poll again
DriverPoll ==
    /\ d_pc = "poll"
    /\ is_stepping_now' = is_stepping
    /\ d_pc' = IF is_paused /\ ~is_stepping THEN "poll" ELSE "dispatch"
    /\ UNCHANGED <<event_queue, n_logged, app_vars>>

\* the end of an iteration: did_step() if this iteration was a step; the loss
\* branch leaves by continue, without did_step()
DriverEndIteration ==
    /\ d_pc = "dispatch"
    /\ d_pc' = "poll"
    /\ \E lost \in BOOLEAN :
          is_stepping' = IF is_stepping_now /\ ~lost THEN FALSE ELSE is_stepping
    /\ UNCHANGED <<event_queue, n_logged, is_stepping_now, gui_up, is_paused,
                   event_history, current_event_index, pause_button,
                   step_forward_button, step_back_button, wait_pending>>

\* GuiApp.__init__, which ends with a first call of process_event_queue
GuiAppInit ==
    /\ ~gui_up
    /\ gui_up' = TRUE
    /\ is_paused' = FALSE
    /\ is_stepping' = FALSE
    /\ pause_button' = TRUE
    /\ step_forward_button' = FALSE
    /\ step_back_button' = FALSE
    /\ IF event_queue # <<>>
       THEN PopToHistory
       ELSE UNCHANGED <<event_queue, event_history, current_event_index>>
    /\ UNCHANGED <<n_logged, d_pc, is_stepping_now, wait_pending>>

ProcessEventQueue ==
    /\ gui_up
    /\ IF ~is_paused /\ event_queue # <<>>
       THEN PopToHistory
       ELSE UNCHANGED <<event_queue, event_history, current_event_index>>
    /\ UNCHANGED <<n_logged, d_pc, is_stepping_now, gui_up, is_paused, is_stepping,
                   pause_button, step_forward_button, step_back_button, wait_pending>>

TogglePause ==
    /\ gui_up
    /\ pause_button
    /\ is_paused' = ~is_paused
    /\ step_forward_button' = ~is_paused
    /\ step_back_button' = ~is_paused
    /\ UNCHANGED <<thread_vars, gui_up, is_stepping, event_history,
                   current_event_index, pause_button, wait_pending>>

WaitForStepEvent ==
    /\ wait_pending > 0
    /\ IF event_queue # <<>>
       THEN /\ PopToHistory
            /\ step_forward_button' = TRUE
            /\ step_back_button' = TRUE
            /\ wait_pending' = wait_pending - 1
       ELSE UNCHANGED <<event_queue, event_history, current_event_index,
                        step_forward_button, step_back_button, wait_pending>>
    /\ UNCHANGED <<n_logged, d_pc, is_stepping_now, gui_up, is_paused, is_stepping,
                   pause_button>>

StepForward ==
    /\ gui_up
    /\ step_forward_button
    /\ IF current_event_index < Len(event_history) - 1
       THEN /\ current_event_index' = current_event_index + 1
            /\ UNCHANGED <<event_queue, event_history, is_stepping,
                           step_forward_button, step_back_button, wait_pending>>
       ELSE IF event_queue # <<>>
       THEN /\ PopToHistory
            /\ UNCHANGED <<is_stepping, step_forward_button, step_back_button,
                           wait_pending>>
       ELSE IF ~is_stepping
       THEN /\ wait_pending < MaxWaits
            /\ is_stepping' = TRUE
            /\ step_forward_button' = FALSE
            /\ step_back_button' = FALSE
            /\ wait_pending' = wait_pending + 1
            /\ UNCHANGED <<event_queue, event_history, current_event_index>>
       ELSE UNCHANGED <<event_queue, event_history, current_event_index,
                        is_stepping, step_forward_button, step_back_button,
                        wait_pending>>
    /\ pause_button' = IF current_event_index' = Len(event_history') - 1
                       THEN TRUE ELSE pause_button
    /\ UNCHANGED <<n_logged, d_pc, is_stepping_now, gui_up, is_paused>>

StepBack ==
    /\ gui_up
    /\ step_back_button
    /\ IF current_event_index >= 0
       THEN /\ current_event_index' = current_event_index - 1
            /\ pause_button' = FALSE
       ELSE UNCHANGED <<current_event_index, pause_button>>
    /\ UNCHANGED <<thread_vars, gui_up, is_paused, is_stepping, event_history,
                   step_forward_button, step_back_button, wait_pending>>

NextObs ==
    /\ \/ LogEvent
       \/ DriverPoll
       \/ DriverEndIteration
       \/ GuiAppInit
       \/ ProcessEventQueue
       \/ TogglePause
       \/ WaitForStepEvent
       \/ StepForward
       \/ StepBack
    /\ UNCHANGED <<pc, cfg_vars, sim_vars, rdt_vars, obs_vars>>

SpecObs == InitObs /\ [][NextObs]_vars

\* runs on the perfect channel with every draw of the arrival and transit
\* times, and longer runs on both channels
InitLive ==
    /\ \E c \in Channels :
          /\ loss_prob = c[1] /\ corrupt_prob = c[2]
          /\ n_sim_msgs \in IF c[1] = 0 /\ c[2] = 0 THEN 0..(MaxMsgs + 1) ELSE {MaxMsgs + 1}
    /\ visualizer = FALSE
    /\ pause = 0
    /\ pc = "init"
    /\ InitSimulator
    /\ InitObserver
    /\ InitEntities

\* the dispatch loop is one thread that keeps running; the channel impairs at
\* most MaxImpair transmissions (DrawAllowed), so it cannot impair for ever
SpecLive == InitLive /\ [][Next]_vars /\ WF_vars(Next)

\* ---------------------------------------------------------------------------
\* Properties
\* ---------------------------------------------------------------------------
IsPrefix(s, r) == Len(s) <= Len(r) /\ SubSeq(r, 1, Len(s)) = s

\* a, b, ..., z, a, b, ... truncated to k characters
Alphabet(k) == [i \in 1..k |-> OrdLowerA + ((i - 1) % AlphabetLen)]

PerfectChannel == loss_prob = 0 /\ corrupt_prob = 0

C2_ScenarioAFifty ==
    (pc = "done" /\ n_sim_msgs = TestMsgs /\ PerfectChannel) =>
        /\ Len(sent) = TestMsgs
        /\ Len(received) = TestMsgs
        /\ received = Alphabet(TestMsgs)

\* C2, amended: scenario A ends with 50 characters sent and 49 received, the
\* received ones being the cyclic alphabet truncated to 49, whatever is drawn.
C2_ScenarioA ==
    (pc = "done" /\ n_sim_msgs = TestMsgs /\ PerfectChannel) =>
        /\ sent = Alphabet(TestMsgs)
        /\ received = Alphabet(TestMsgs - 1)

C2_Witness ==
    /\ pc = "done" /\ n_sim_msgs = TestMsgs /\ PerfectChannel
    /\ Len(sent) = TestMsgs
    /\ Len(received) > AlphabetLen

\* C3: a run of 50 messages of the test that has ended has delivered at least
\* 96% of the 50 messages, for each of the four tested channels.
C3_AtLeast96Percent ==
    (pc = "done" /\ n_sim_msgs = TestMsgs) => 100 * Len(received) >= 96 * TestMsgs

C3_Witness ==
    /\ pc = "done" /\ n_sim_msgs = TestMsgs
    /\ lost_count + corrupt_count > 0
    /\ loss_prob = TestLoss /\ corrupt_prob = TestCorrupt

\* C4: every call of deliver_data is for a packet whose stored checksum is the
\* sum of its payload character codes plus its sequence number.
C4_DeliveredVerifies ==
    delivered_pkt # NewPkt =>
        delivered_pkt.checksum = SumSeq(delivered_pkt.payload) + delivered_pkt.seqnum

\* the first data packet reached the receiver corrupted and nothing was
\* delivered; its retransmission has been delivered
C4_Witness ==
    /\ event.type = FROM_LAYER3 /\ event.entity = B
    /\ corrupt_count = 1 /\ lost_count = 0
    /\ last_rcv = (A :> 0 @@ B :> 2)
    /\ tolayer3_count = 3
    /\ delivered_pkt = s_pkt /\ received = <<OrdLowerA>>

\* C5: rdt_send called by the driver while the sender awaits an acknowledgment
\* returns failure; no packet is handed to the channel, no timer is started and
\* the sender's state is unchanged; the driver only puts the event back.
C5_BusyRejected ==
    [][(Dispatching(FROM_LAYER5) /\ waiting_for_ack) =>
            /\ rdt_send_ret' = FALSE
            /\ UNCHANGED <<rdt_vars, tolayer3_count, timer_A, timer_B, next_id,
                           sent, msg_count, received>>
            /\ Len(events') = Len(GetNextEvent(State).events) + 1
            /\ {i \in DOMAIN events' : events'[i].type = FROM_LAYER5} # {}]_vars

C5_Witness == rdt_send_ret = FALSE /\ waiting_for_ack /\ event.type = FROM_LAYER5

\* the receiver is handed a verified packet with the sequence number it
\* accepted last
DuplicateArrives ==
    /\ Dispatching(FROM_LAYER3)
    /\ LET S == GetNextEvent(State)
           p == S.pkts[S.event.pkt]
       IN  /\ S.event.entity = B
           /\ p.seqnum = previous_seqnum
           /\ p.seqnum # expected_seqnum
           /\ p.checksum = SumSeq(p.payload) + p.seqnum

\* C6: on a retransmitted packet the receiver has accepted already it sends
\* the acknowledgment for that sequence number again and delivers nothing.
C6_DuplicateReacked ==
    [][DuplicateArrives =>
            /\ received' = received
            /\ UNCHANGED <<expected_seqnum, previous_seqnum, delivered_pkt>>
            /\ tolayer3_count' = tolayer3_count + 1
            /\ pkts'[tolayer3_count'] =
                    [seqnum |-> previous_seqnum, payload |-> ACK,
                     checksum |-> SumSeq(ACK) + previous_seqnum]]_vars

\* the first acknowledgment was lost, the retransmission was acknowledged again
C6_Witness ==
    /\ event.type = FROM_LAYER3 /\ event.entity = B
    /\ lost_count = 1 /\ corrupt_count = 0
    /\ last_rcv[A] = 0
    /\ received = <<OrdLowerA>>
    /\ tolayer3_count = 4
    /\ pkts[4].payload = ACK /\ pkts[4].seqnum = 0

\* C7: verify_checksum succeeds right after calc_checksum, and fails on the
\* packet after any of the three corruptions, unless the corruption replaced a
\* character by itself (the packet is then what it was).
C7_RoundTrip ==
    /\ pc = "calc" => VerifyChecksum(s_pkt)
    /\ pc = "corrupted" => (VerifyChecksum(pkts[1]) <=> pkts[1] = s_pkt)

C7_Witness ==
    /\ pc = "corrupted"
    /\ pkts[1].payload # s_pkt.payload
    /\ s_pkt.seqnum = 1
    /\ ~VerifyChecksum(pkts[1])

TimerEvents(heap, entity) ==
    {i \in DOMAIN heap : heap[i].type = TIMER_INTERRUPT /\ heap[i].entity = entity}

\* C8: start_timer for an entity whose timer is outstanding changes nothing:
\* the event queue, both timer slots and the run are as before.
C8_SecondStartRejected ==
    [][\A e \in {A, B} :
          (/\ timer_calls' = timer_calls + 1
           /\ timer_call'.op = "start" /\ timer_call'.entity = e
           /\ (IF e = A THEN timer_A ELSE timer_B) # 0) =>
                UNCHANGED <<events, timer_A, timer_B, next_id, t, pc>>]_vars

C8_Witness ==
    /\ timer_call.op = "start" /\ timer_call.entity = A
    /\ timer_call.increment # TimerIncrement
    /\ timer_A # 0
    /\ \A i \in TimerEvents(events, A) : events[i].time = TimerIncrement + ShortGap
    /\ Cardinality(TimerEvents(events, A)) = 1

\* C9: two packets dispatched to the same entity are dispatched in the order
\* they were handed to the channel (packets are numbered in that order).
C9_NoReordering == [][\A e \in {A, B} : last_rcv'[e] >= last_rcv[e]]_vars

\* C10, as the spec states it: when the loop exits with a non-empty queue, as
\* many messages as the quota have been delivered to the receiver's application.
C10_ExitWhenDelivered ==
    (pc = "done" /\ events # <<>>) => Len(received) = n_sim_msgs

\* C10, amended: when the loop exits with a non-empty queue, as many messages as
\* the quota have been accepted by the sender from the application layer.
C10_ExitWhenSubmitted ==
    (pc = "done" /\ events # <<>>) =>
        msg_count = n_sim_msgs /\ Len(sent) = n_sim_msgs

C10_Witness ==
    /\ pc = "done" /\ events # <<>>
    /\ n_sim_msgs = MaxMsgs
    /\ Len(received) < n_sim_msgs

LiveEvents(heap) == {i \in DOMAIN heap : ~heap[i].cancelled}

\* C11: the simulated clock never decreases, and no event is queued at a time
\* before the clock.
C11_ClockMonotone ==
    [][t' >= t /\ \A i \in DOMAIN events' : events'[i].time >= t']_vars

\* a timeout dispatched while events of the same and of later times are queued
C11_Witness ==
    /\ event.type = TIMER_INTERRUPT
    /\ t = ShortGap + TimerIncrement
    /\ \E i \in DOMAIN events : events[i].time = t
    /\ \E i \in DOMAIN events : events[i].time > t

\* C12: the event dispatched is not cancelled: it is the earliest event of the
\* queue that is not cancelled, and the events popped before it are discarded;
\* when every queued event is cancelled the loop ends.
C12_CancelledNeverDispatched ==
    [][(pc = "loop" /\ ~CheckEnd(State)) =>
          IF LiveEvents(events) = {}
          THEN pc' = "done"
          ELSE /\ ~event'.cancelled
               /\ \E i \in LiveEvents(events) :
                    /\ events[i] = event'
                    /\ \A j \in LiveEvents(events) : events[j].time >= event'.time
               /\ \A j \in DOMAIN events' : events'[j].time >= event'.time]_vars

\* the second message is dispatched after the first one's timer, stopped on
\* its acknowledgment, came to the head of the queue: no retransmission was made
C12_Witness ==
    /\ event.type = FROM_LAYER5 /\ rdt_send_ret
    /\ t = 2 * LongGap
    /\ PerfectChannel
    /\ sent = <<OrdLowerA, OrdLowerA + 1>>
    /\ tolayer3_count = 3
    /\ \A i \in DOMAIN events : ~events[i].cancelled

C14_Terminates == <>(pc = "done")

\* a run that ended although a packet was lost and sent again on a timeout
C14_Witness ==
    /\ pc = "done"
    /\ n_sim_msgs = MaxMsgs + 1
    /\ lost_count = MaxImpair
    /\ Len(sent) = n_sim_msgs
    /\ tolayer3_count = 2 * MaxMsgs + 1 + MaxImpair

\* C15: with a loss or corruption probability of 1.0 or more on the command
\* line no Simulator is constructed: main exits, no event is created or
\* dispatched.
C15_InvalidConfigRejected ==
    (loss_prob >= One \/ corrupt_prob >= One) =>
        /\ pc \in {"main", "rejected"}
        /\ events = <<>> /\ event = NoEvent /\ next_id = 1 /\ t = 0

\* the loss probability passed the first check, the second check rejected
C15_Witness == pc = "rejected" /\ loss_prob = TestLoss /\ corrupt_prob > One

ObserverTransit(p) == (p \div 2) * (AnimationNetworkSteps + 1)

GuiPauses == {c[1] : c \in GuiChannels}

\* C17: runs that differ in the pacing delay only dispatch the same events at
\* the same simulated times; so the first packet, handed to the channel when
\* the first message is dispatched, is scheduled to arrive after a time that
\* is the same for every pause of the observer.
C17_PacingNoEffect ==
    (visualizer /\ event.type = FROM_LAYER5 /\ rdt_send_ret /\ tolayer3_count = 1) =>
        \A i \in DOMAIN events :
            (events[i].type = FROM_LAYER3 /\ events[i].pkt = 1) =>
                \A p \in GuiPauses : events[i].time - t = ObserverTransit(p)

\* the records produced so far, in the order of the log_event calls
Produced == [i \in 1..n_logged |-> i]

\* C18: the records the GUI thread has taken from the deque, followed by those
\* still in it, are the records the simulation thread produced, in order: what
\* was consumed is a prefix of what was produced, nothing skipped, duplicated
\* or reordered; the position shown stays inside the history.
C18_ConsumedIsPrefix ==
    /\ event_history \o event_queue = Produced
    /\ IsPrefix(event_history, Produced)
    /\ current_event_index \in -1..(Len(event_history) - 1)

\* a record taken by a step request while paused, a later one waiting behind a
\* position moved back in the history
C18_Witness ==
    /\ is_paused /\ wait_pending = 0
    /\ n_logged = MaxRecords
    /\ Len(event_history) = MaxRecords - 1
    /\ event_queue = <<MaxRecords>>
    /\ current_event_index = 0

\* the next iteration dispatches an event of this type to this entity
NextDispatch(type, entity) ==
    /\ pc = "loop"
    /\ ~CheckEnd(State)
    /\ GetNextEvent(State).event.type = type
    /\ GetNextEvent(State).event.entity = entity

\* C19: a packet dispatched to the sender while it awaits an acknowledgment:
\* if its payload is "ACK", its sequence number is the sender's current one
\* and its checksum verifies, the sender toggles its sequence number, stops
\* waiting and its timer is stopped (slot empty, no live timer event left);
\* any other packet leaves sequence number, flag and timer as they were.
C19_SenderAckHandling ==
    [][(NextDispatch(FROM_LAYER3, A) /\ waiting_for_ack) =>
        LET p == pkts[GetNextEvent(State).event.pkt]
        IN  IF p.payload = ACK /\ p.seqnum = current_seqnum /\ VerifyChecksum(p)
            THEN /\ current_seqnum' = 1 - current_seqnum
                 /\ ~waiting_for_ack'
                 /\ timer_A' = 0
                 /\ TimerEvents(events', A) \cap LiveEvents(events') = {}
            ELSE /\ UNCHANGED <<current_seqnum, waiting_for_ack, timer_A>>
                 /\ \E i \in TimerEvents(events', A) \cap LiveEvents(events') :
                       events'[i].id = timer_A]_vars

\* the first acknowledgment came corrupted and was ignored, the timer went
\* off, and the acknowledgment of the retransmission is accepted
C19_Witness ==
    /\ event.type = FROM_LAYER3 /\ event.entity = A
    /\ corrupt_count = 1 /\ lost_count = 0
    /\ tolayer3_count = 4 /\ last_rcv[A] = 4
    /\ ~waiting_for_ack /\ current_seqnum = 1 /\ timer_A = 0

\* C20: a timer event dispatched to the sender while it awaits an
\* acknowledgment: one more packet is handed to the channel, with the sequence
\* number, payload and checksum of the outstanding packet; the sender's timer
\* runs again (a live timer event TimerIncrement from now, held by the slot)
\* and the sender awaits the acknowledgment; sent and msg_count are unchanged.
C20_TimerExpiryRetransmits ==
    [][(NextDispatch(TIMER_INTERRUPT, A) /\ waiting_for_ack) =>
        /\ tolayer3_count' = tolayer3_count + 1
        /\ pkts'[tolayer3_count'] = [seqnum |-> s_pkt.seqnum, payload |-> s_pkt.payload,
                                     checksum |-> s_pkt.checksum]
        /\ s_pkt' = s_pkt
        /\ \E i \in DOMAIN events' :
              /\ events'[i].type = FROM_LAYER3 /\ events'[i].entity = B
              /\ events'[i].pkt = tolayer3_count' /\ ~events'[i].cancelled
        /\ waiting_for_ack'
        /\ timer_A' # 0 /\ timer_A' # timer_A
        /\ \E i \in TimerEvents(events', A) \cap LiveEvents(events') :
              events'[i].id = timer_A' /\ events'[i].time = t' + TimerIncrement
        /\ UNCHANGED <<sent, msg_count, current_seqnum>>]_vars

\* the first packet was lost, its timer went off and the packet was sent again
C20_Witness ==
    /\ event.type = TIMER_INTERRUPT /\ event.entity = A
    /\ lost_count = 1 /\ tolayer3_count = 2
    /\ waiting_for_ack /\ timer_A # 0
    /\ sent = <<OrdLowerA>> /\ received = <<>>
    /\ pkts[2] = [seqnum |-> 0, payload |-> <<OrdLowerA>>, checksum |-> OrdLowerA]

\* the packet of the event the next iteration dispatches
DispatchedPkt == pkts[GetNextEvent(State).event.pkt]

\* the arrival events queued for an entity that are not cancelled
PendingArrivals(heap, entity) ==
    {i \in DOMAIN heap : heap[i].type = FROM_LAYER3 /\ heap[i].entity = entity
                         /\ ~heap[i].cancelled}

\* C21: a packet dispatched to the receiver whose sequence number is the
\* expected one and whose checksum verifies: its payload is delivered once
\* (one character more in received), expected_seqnum toggles, previous_seqnum
\* becomes the packet's sequence number, and one packet is handed to the
\* channel, for the sender: payload "ACK", that sequence number, a checksum
\* that verifies.
C21_InOrderAcceptance ==
    [][(NextDispatch(FROM_LAYER3, B)
            /\ DispatchedPkt.seqnum = expected_seqnum /\ VerifyChecksum(DispatchedPkt)) =>
        /\ received' = received \o DispatchedPkt.payload
        /\ Len(DispatchedPkt.payload) = 1
        /\ expected_seqnum' = 1 - expected_seqnum
        /\ previous_seqnum' = DispatchedPkt.seqnum
        /\ tolayer3_count' = tolayer3_count + 1
        /\ pkts'[tolayer3_count'].payload = ACK
        /\ pkts'[tolayer3_count'].seqnum = DispatchedPkt.seqnum
        /\ VerifyChecksum(pkts'[tolayer3_count'])
        /\ \E i \in PendingArrivals(events', A) : events'[i].pkt = tolayer3_count']_vars

\* the first packet was lost; its retransmission is accepted and acknowledged
C21_Witness ==
    /\ event.type = FROM_LAYER3 /\ event.entity = B
    /\ lost_count = 1 /\ tolayer3_count = 3 /\ last_rcv[B] = 2
    /\ received = <<OrdLowerA>>
    /\ expected_seqnum = 1 /\ previous_seqnum = 0
    /\ pkts[3].payload = ACK /\ pkts[3].seqnum = 0

\* C22: a packet dispatched to the receiver whose checksum fails, or whose
\* sequence number is neither the expected nor the previous one: nothing is
\* delivered, nothing is handed to the channel, expected_seqnum and
\* previous_seqnum stay as they were.
C22_SilentDrop ==
    [][(NextDispatch(FROM_LAYER3, B)
            /\ (~VerifyChecksum(DispatchedPkt)
                \/ DispatchedPkt.seqnum \notin {expected_seqnum, previous_seqnum})) =>
        /\ UNCHANGED <<received, tolayer3_count, expected_seqnum, previous_seqnum,
                       next_id, delivered_pkt>>
        /\ \A i \in DOMAIN events' : events'[i].pkt # GetNextEvent(State).event.pkt]_vars

\* a corrupted data packet reached the receiver: nothing delivered, no packet sent
C22_Witness ==
    /\ event.type = FROM_LAYER3 /\ event.entity = B
    /\ corrupt_count = 1 /\ tolayer3_count = 1 /\ last_rcv[B] = 1
    /\ received = <<>> /\ expected_seqnum = 0 /\ previous_seqnum = NoneVal
    /\ waiting_for_ack /\ timer_A # 0

\* the timer slot of an entity
Slot(S, e) == IF e = A THEN S.timer_A ELSE S.timer_B

\* C23: stop_timer for an entity whose slot holds a timer clears the slot and
\* sets cancelled on that timer's event, and on nothing else; a start_timer
\* that follows is accepted; a stop_timer with an empty slot changes neither
\* the queue nor the slots, and the run goes on.  An event cancelled in the
\* queue is never the event dispatched.
C23_StopTimer ==
    [][/\ \A e \in {A, B} :
            (/\ timer_calls' = timer_calls + 1
             /\ timer_call'.op = "stop" /\ timer_call'.entity = e) =>
                IF Slot(State, e) # 0
                THEN /\ Slot(State, e)' = 0
                     /\ Slot(State, 1 - e)' = Slot(State, 1 - e)
                     /\ DOMAIN events' = DOMAIN events
                     /\ \A i \in DOMAIN events :
                           events'[i] = IF events[i].id = Slot(State, e)
                                        THEN [events[i] EXCEPT !.cancelled = TRUE]
                                        ELSE events[i]
                     /\ Slot(StartTimer(State, e, TimerIncrement), e)' = next_id
                     /\ pc' = pc
                ELSE UNCHANGED <<events, timer_A, timer_B, next_id, t, pc>>
       /\ \A i \in DOMAIN events :
            events[i].cancelled => (event' = event \/ event'.id # events[i].id)]_vars

\* the sender's running timer was stopped from outside: slot empty, the event
\* still queued with its flag set
C23_Witness ==
    /\ timer_call.op = "stop" /\ timer_call.entity = A
    /\ waiting_for_ack /\ timer_A = 0
    /\ \E i \in TimerEvents(events, A) : events[i].cancelled

\* C24: when a timer event is dispatched for an entity, the entity's slot no
\* longer holds that timer afterwards (it is empty, or holds the timer the
\* handler started), so that a start_timer is accepted again.
C24_ClearedWhenFired ==
    [][\A e \in {A, B} :
          NextDispatch(TIMER_INTERRUPT, e) =>
              Slot(State, e)' # GetNextEvent(State).event.id]_vars

\* C25: a network effect event that decides loss (the lost counter goes up):
\* the arrival event it refers to is queued and gets its cancelled flag, the
\* corrupted counter and the packet are as before, nothing else changes in the
\* queue; and an arrival event cancelled in the queue is never dispatched.
C25_LossCancelsArrival ==
    [][/\ (\E e \in {A, B} : NextDispatch(NETWORK_EFFECT, e)) /\ lost_count' # lost_count =>
            LET ne == GetNextEvent(State).event
            IN  /\ lost_count' = lost_count + 1
                /\ \E i \in DOMAIN events' :
                      /\ events'[i].id = ne.arr /\ events'[i].type = FROM_LAYER3
                      /\ events'[i].pkt = ne.pkt /\ events'[i].cancelled
                /\ \A i \in DOMAIN events' :
                      events'[i].id # ne.arr => ~events'[i].cancelled \/ events'[i] \in
                                                    {events[j] : j \in DOMAIN events}
                /\ corrupt_count' = corrupt_count
                /\ pkts'[ne.pkt] = pkts[ne.pkt]
                /\ UNCHANGED <<received, rdt_vars, tolayer3_count>>
       /\ \A i \in DOMAIN events :
            (events[i].type = FROM_LAYER3 /\ events[i].cancelled) =>
                (event' = event \/ event'.id # events[i].id)]_vars

\* the latest time of the arrival events queued for an entity, cancelled ones
\* included; now if there is none
LastArrival(heap, now, entity) ==
    Max({now} \cup {heap[i].time : i \in {j \in DOMAIN heap :
                        heap[j].type = FROM_LAYER3 /\ heap[j].entity = entity}})

\* C26: whenever a packet is handed to the channel, its arrival event is
\* scheduled at the latest arrival time queued for the destination at that
\* moment (the current time if none is queued) plus the transit duration: the
\* draw, or with an observer the duration the observer's pause gives.
C26_ArrivalAfterLastArrival ==
    [][tolayer3_count' = tolayer3_count + 1 =>
        \A i \in DOMAIN events' :
            (events'[i].type = FROM_LAYER3 /\ events'[i].pkt = tolayer3_count') =>
                LET queue == GetNextEvent(State).events
                    d == events'[i].time - LastArrival(queue, t', events'[i].entity)
                IN  IF visualizer THEN d = ObserverTransit(pause)
                                  ELSE d \in TransitChoices]_vars

\* C27: the packet queued at a handoff by the sender has the fields of the
\* sender's packet at that moment, and a packet referenced by the queue
\* changes only when the channel corrupts it or when the receiver, to which
\* it was dispatched, turns it into its acknowledgment: never when the sender
\* changes its own packet object for a later send.
C27_CopyOnHandoff ==
    [][/\ (tolayer3_count' = tolayer3_count + 1 /\ ~NextDispatch(FROM_LAYER3, B)) =>
            pkts'[tolayer3_count'] = [seqnum |-> s_pkt'.seqnum, payload |-> s_pkt'.payload,
                                      checksum |-> s_pkt'.checksum]
       /\ \A k \in DOMAIN pkts \cap DOMAIN pkts' :
            pkts'[k] # pkts[k] =>
               /\ GetNextEvent(State).event.pkt = k
               /\ \/ corrupt_count' = corrupt_count + 1
                  \/ NextDispatch(FROM_LAYER3, B)]_vars

\* the second message is submitted, the sender's packet now carries it, and a
\* copy of the first packet is still on its way to the receiver, unchanged
C27_Witness ==
    /\ event.type = FROM_LAYER5 /\ rdt_send_ret
    /\ s_pkt.seqnum = 1 /\ s_pkt.payload = <<OrdLowerA + 1>>
    /\ \E i \in PendingArrivals(events, B) :
          /\ pkts[events[i].pkt].seqnum = 0
          /\ pkts[events[i].pkt].payload = <<OrdLowerA>>
          /\ VerifyChecksum(pkts[events[i].pkt])

\* the network effect events queued for a packet
EffectsOf(heap, k) == {i \in DOMAIN heap : heap[i].type = NETWORK_EFFECT /\ heap[i].pkt = k}

\* the arrival events queued for a packet
ArrivalsOf(heap, k) == {i \in DOMAIN heap : heap[i].type = FROM_LAYER3 /\ heap[i].pkt = k}

\* C28, as the spec states it: the network effect event of a packet handed to
\* the channel at time t0 is scheduled at t0 plus half the transit duration
\* (the draw, or the duration the observer's pause gives), also when the
\* arrival is scheduled after an arrival already queued.
C28_MidpointOfTransit ==
    [][tolayer3_count' = tolayer3_count + 1 =>
        \A i \in EffectsOf(events', tolayer3_count') :
            IF visualizer
            THEN events'[i].time = t' + ObserverTransit(pause) \div 2
            ELSE \E transit \in TransitChoices : events'[i].time = t' + transit \div 2]_vars

\* C28, as the code has it: the network effect event of a packet handed to the
\* channel at time t0 is scheduled half way between t0 and the time of the
\* packet's arrival event, and refers to that arrival event.
C28_MidpointOfSendAndArrival ==
    [][tolayer3_count' = tolayer3_count + 1 =>
        /\ Cardinality(EffectsOf(events', tolayer3_count')) = 1
        /\ Cardinality(ArrivalsOf(events', tolayer3_count')) = 1
        /\ \A i \in EffectsOf(events', tolayer3_count'),
              j \in ArrivalsOf(events', tolayer3_count') :
                /\ events'[i].arr = events'[j].id
                /\ events'[i].time = t' + (events'[j].time - t') \div 2]_vars

\* a retransmission queued behind an earlier packet: its network effect comes
\* later than half a transit duration after the send
C28_Witness ==
    /\ visualizer /\ event.type = TIMER_INTERRUPT /\ event.entity = A
    /\ \E i \in EffectsOf(events, tolayer3_count), j \in ArrivalsOf(events, tolayer3_count) :
          /\ events[j].time > t + ObserverTransit(pause)
          /\ events[i].time > t + ObserverTransit(pause) \div 2
          /\ events[i].time = t + (events[j].time - t) \div 2

\* the application-data-ready events in the queue
Layer5Events(heap) == {i \in DOMAIN heap : heap[i].type = FROM_LAYER5}

\* C29: a FROM_LAYER5 event dispatched while the sender awaits an
\* acknowledgment is rejected: the same event is put back, at a time later
\* than the current time and later than every arrival event in the queue; it
\* is the only FROM_LAYER5 event queued; msg_count and sent are unchanged and
\* nothing is handed to the channel.  The character offered is the one at
\* position msg_count of the alphabet, so the retry offers the same one: a
\* submit that succeeds appends exactly that character.
C29_BusyRetry ==
    [][/\ (NextDispatch(FROM_LAYER5, A) /\ waiting_for_ack) =>
            /\ UNCHANGED <<sent, msg_count, tolayer3_count, next_id, rdt_vars>>
            /\ ~rdt_send_ret'
            /\ Cardinality(Layer5Events(events')) = 1
            /\ \A i \in Layer5Events(events') :
                  /\ events'[i].id = GetNextEvent(State).event.id
                  /\ ~events'[i].cancelled
                  /\ events'[i].time > t'
                  /\ \A j \in DOMAIN events' :
                        events'[j].type = FROM_LAYER3 => events'[i].time > events'[j].time
       /\ (NextDispatch(FROM_LAYER5, A) /\ ~waiting_for_ack) =>
            /\ msg_count = Len(sent)
            /\ sent' = Append(sent, OrdLowerA + (msg_count % AlphabetLen))
            /\ msg_count' = msg_count + 1
            /\ s_msg' = <<OrdLowerA + (msg_count % AlphabetLen)>>]_vars

\* the second message came while the first was unacknowledged; it waits behind
\* the acknowledgment that is on its way
C29_Witness ==
    /\ event.type = FROM_LAYER5 /\ ~rdt_send_ret /\ waiting_for_ack
    /\ sent = <<OrdLowerA>> /\ msg_count = 1
    /\ \E i \in Layer5Events(events), j \in PendingArrivals(events, A) :
          /\ events[i].id = event.id
          /\ events[j].time > t
          /\ events[i].time = events[j].time + RetryDelay

\* C30, as the spec states it: generate_next_arrival creates at most
\* n_sim_msgs application-data-ready events over a run.
C30_AtMostQuota == arrivals_made <= n_sim_msgs

\* C30, as the code has it: one event is created before the loop and one after
\* each submit that succeeds, the last of them included: one more than the
\* messages submitted, at most n_sim_msgs + 1; the messages submitted never
\* exceed n_sim_msgs, and the event created last is still queued when the run
\* is over.
C30_AtMostQuotaPlusOne ==
    /\ arrivals_made = IF pc \in {"init", "main", "rejected", "pkt", "calc", "corrupted"}
                       THEN 0 ELSE msg_count + 1
    /\ msg_count <= n_sim_msgs
    /\ arrivals_made <= n_sim_msgs + 1
    /\ (pc = "done" /\ msg_count = n_sim_msgs) => Cardinality(Layer5Events(events)) = 1

\* a run of MaxMsgs messages is over: one more event than the quota was made,
\* and it is in the queue
C30_Witness ==
    /\ pc = "done" /\ n_sim_msgs = MaxMsgs /\ msg_count = MaxMsgs
    /\ arrivals_made = MaxMsgs + 1
    /\ \E i \in Layer5Events(events) : events[i].time > t

\* ---------------------------------------------------------------------------
\* The driver paced by the observer: every iteration polls the pause and step
\* flags that GuiApp sets, and appends its records to the shared deque
\* ---------------------------------------------------------------------------
InitStep ==
    /\ n_sim_msgs = MaxMsgs
    /\ loss_prob = TestLoss
    /\ corrupt_prob = 0
    /\ visualizer = TRUE
    /\ pause = DefaultPause
    /\ pc = "init"
    /\ InitSimulator
    /\ InitObserver
    /\ InitEntities

\* GuiVisualizer.log_event: the record holds the object given as data, here
\* the identity of the packet; seen is the packet's fields at that moment
Record(kind, pkt, P) ==
    [type |-> kind, pkt |-> pkt, seen |-> IF pkt \in DOMAIN P THEN P[pkt] ELSE NewPkt]

\* the three records of tolayer3, when the iteration sent a packet
SendRecords ==
    IF tolayer3_count' > tolayer3_count
    THEN <<Record("PKT_FROM_RDT", tolayer3_count', pkts'),
           Record("L4_L3", tolayer3_count', pkts'),
           Record("L3_NET", tolayer3_count', pkts')>>
    ELSE <<>>

\* the records one iteration appends, in the order of its log_event calls
Logged(type) ==
    CASE type = FROM_LAYER5 ->
            <<Record("DATA_FROM_APP", NoneVal, pkts), Record("L5_L4", NoneVal, pkts)>>
            \o (IF rdt_send_ret' THEN SendRecords
                ELSE <<Record("L4_L5_REJECT", NoneVal, pkts)>>)
      [] type = FROM_LAYER3 ->
            <<Record("NET_L3", event'.pkt, pkts), Record("L3_L4", event'.pkt, pkts)>>
            \o (IF Len(received') > Len(received)
                THEN <<Record("L4_L5", NoneVal, pkts)>> ELSE <<>>)
            \o SendRecords
      [] type = TIMER_INTERRUPT ->
            <<Record("TIMEOUT", NoneVal, pkts)>> \o SendRecords
      [] type = NETWORK_EFFECT ->
            IF lost_count' > lost_count
            THEN <<Record("PKT_LOST", event'.pkt, pkts)>>
            ELSE IF corrupt_count' > corrupt_count
            THEN <<Record("PKT_CORRUPT", event'.pkt, pkts')>>
            ELSE <<>>
      [] OTHER -> <<Record("GUI_ANIMATE", event'.pkt, pkts)>>

\* the iteration runs to the end of the loop body, where did_step() is
\* called: a busy rejection and a loss leave it before, by continue
ReachesDidStep(type) ==
    /\ ~(type = FROM_LAYER5 /\ ~rdt_send_ret')
    /\ ~(type = NETWORK_EFFECT /\ lost_count' > lost_count)

\* one iteration of the loop with an observer: it polls the flags, dispatches
\* unless paused with no step asked, logs, and ends a step that it began
Paced(iteration, type) ==
    /\ ~is_paused \/ is_stepping
    /\ iteration
    /\ is_stepping_now' = is_stepping
    /\ is_stepping' = IF is_stepping /\ ReachesDidStep(type) THEN FALSE ELSE is_stepping
    /\ event_queue' = event_queue \o Logged(type)
    /\ n_logged' = n_logged + Len(Logged(type))
    /\ UNCHANGED <<d_pc, gui_up, is_paused, event_history, current_event_index,
                   pause_button, step_forward_button, step_back_button, wait_pending>>

\* run up to the loop: the first arrival and the two APP_INIT records
PacedStart ==
    /\ pc = "init"
    /\ \E x \in ArrivalChoices : Becomes(GenerateNextArrival(State, x))
    /\ pc' = "loop"
    /\ event_queue' = event_queue \o <<Record("APP_INIT", NoneVal, pkts),
                                       Record("APP_INIT", NoneVal, pkts)>>
    /\ n_logged' = n_logged + 2
    /\ d_pc' = "poll"
    /\ UNCHANGED <<cfg_vars, is_stepping_now, app_vars>>

\* check_end() is evaluated before the flags are polled, get_next_event()
\* after
PacedExit ==
    /\ pc = "loop"
    /\ \/ CheckEnd(State) /\ Becomes(State)
       \/ /\ ~CheckEnd(State)
          /\ ~is_paused \/ is_stepping
          /\ GetNextEvent(State).event = NoEvent
          /\ Becomes(GetNextEvent(State))
    /\ pc' = "done"
    /\ UNCHANGED <<cfg_vars, gui_vars>>

PacedFromLayer5 == Paced(IterFromLayer5, FROM_LAYER5)

PacedFromLayer3 == Paced(IterFromLayer3, FROM_LAYER3)

PacedTimerInterrupt == Paced(IterTimerInterrupt, TIMER_INTERRUPT)

PacedNetworkEffect == Paced(IterNetworkEffect, NETWORK_EFFECT)

PacedGuiAnimate == Paced(IterGuiAnimate, GUI_ANIMATE)

\* the handlers of GuiApp that pace the driver or consume its records
GuiHandlers ==
    /\ \/ GuiAppInit
       \/ ProcessEventQueue
       \/ TogglePause
       \/ WaitForStepEvent
       \/ StepForward
    /\ UNCHANGED <<pc, cfg_vars, sim_vars, rdt_vars, obs_vars>>

NextStep ==
    \/ PacedStart
    \/ PacedExit
    \/ PacedFromLayer5
    \/ PacedFromLayer3
    \/ PacedTimerInterrupt
    \/ PacedNetworkEffect
    \/ PacedGuiAnimate
    \/ GuiHandlers

SpecStep == InitStep /\ [][NextStep]_vars

\* C31: while the observer is paused, the iteration that a step request lets
\* through clears the step flag whatever the event and its outcome, and with
\* no step request no iteration changes the simulation
C31_OneEventPerStep ==
    [][is_paused /\ pc = "loop"
          => /\ <<sim_vars, rdt_vars>>' # <<sim_vars, rdt_vars>> => is_stepping
             /\ is_stepping /\ <<sim_vars, rdt_vars>>' # <<sim_vars, rdt_vars>>
                   => ~is_stepping']_vars

\* the second half of C31 alone
C31_NoStepNoDispatch ==
    [][is_paused /\ pc = "loop" /\ ~is_stepping
          => <<sim_vars, rdt_vars>>' = <<sim_vars, rdt_vars>>]_vars

\* ---------------------------------------------------------------------------
\* The records of a run on a corrupting channel, consumed by a GuiApp that is
\* never paused
\* ---------------------------------------------------------------------------
InitSnap ==
    /\ n_sim_msgs = MaxMsgs
    /\ loss_prob = 0
    /\ corrupt_prob = TestCorrupt
    /\ visualizer = TRUE
    /\ pause = DefaultPause
    /\ pc = "init"
    /\ InitSimulator
    /\ InitObserver
    /\ InitEntities

GuiConsumes ==
    /\ \/ GuiAppInit
       \/ ProcessEventQueue
    /\ UNCHANGED <<pc, cfg_vars, sim_vars, rdt_vars, obs_vars>>

NextSnap ==
    \/ PacedStart
    \/ PacedExit
    \/ PacedFromLayer5
    \/ PacedFromLayer3
    \/ PacedTimerInterrupt
    \/ PacedNetworkEffect
    \/ PacedGuiAnimate
    \/ GuiConsumes

SpecSnap == InitSnap /\ [][NextSnap]_vars

\* what the observer reads when it takes the record: the fields of the object
\* the record holds, as they are now
Reads(record) == pkts[record.pkt]

\* C32: the sequence number, payload and checksum the observer reads for a
\* record waiting in the queue are those the packet had when the record was
\* produced
C32_RecordIsSnapshot ==
    \A i \in DOMAIN event_queue :
        event_queue[i].pkt \in DOMAIN pkts => Reads(event_queue[i]) = event_queue[i].seen

\* ---------------------------------------------------------------------------
\* Longer runs with an observer whose pause makes a transit last longer than
\* the sender's timer, on the perfect channel
\* ---------------------------------------------------------------------------
InitSlow ==
    /\ n_sim_msgs = MaxMsgs + 2
    /\ loss_prob = 0
    /\ corrupt_prob = 0
    /\ visualizer = TRUE
    /\ pause = LongPause
    /\ pc = "init"
    /\ InitSimulator
    /\ InitObserver
    /\ InitEntities

SpecSlow == InitSlow /\ [][NextGui]_vars

C34_AllButLastAtQuota ==
    (pc = "done" /\ n_sim_msgs >= 1 /\ msg_count = n_sim_msgs) =>
        /\ sent = Alphabet(n_sim_msgs)
        /\ received = SubSeq(sent, 1, Len(sent) - 1)
        /\ received = Alphabet(n_sim_msgs - 1)

\* C35: between two iterations, when the sender is Idle every message
\* submitted has been delivered, and the receiver expects the sequence number
\* the sender will use next.
C35_IdleMeansDelivered ==
    (pc = "loop" /\ ~waiting_for_ack) =>
        received = sent /\ expected_seqnum = current_seqnum

\* C36: between two iterations the sender's timer slot is set, and refers to
\* a queued TimerExpired event that is not cancelled, exactly when the sender
\* awaits an acknowledgment.
C36_TimerIffAwaiting ==
    pc = "loop" =>
        /\ waiting_for_ack <=> timer_A # 0
        /\ timer_A # 0 =>
              \E i \in TimerEvents(events, A) \cap LiveEvents(events) :
                  events[i].id = timer_A

\* the sender is Idle, its slot is empty and the timer it stopped is still
\* queued, cancelled
C36_Witness ==
    /\ pc = "loop"
    /\ ~waiting_for_ack /\ timer_A = 0
    /\ Len(sent) = 1
    /\ \E i \in TimerEvents(events, A) : events[i].cancelled

\* C37: each time the loop condition is evaluated exactly one
\* ApplicationDataReady event is queued, so the queue is not empty, and a run
\* of one message or more ends only on the quota.
C37_OneLayer5Pending ==
    /\ pc = "loop" => Cardinality(Layer5Events(events)) = 1 /\ events # <<>>
    /\ (pc = "done" /\ n_sim_msgs >= 1) => msg_count = n_sim_msgs

\* the one event queued after a busy rejection is the one put back
C37_Witness ==
    /\ pc = "loop"
    /\ event.type = FROM_LAYER5 /\ ~rdt_send_ret
    /\ \E i \in Layer5Events(events) : events[i].id = event.id /\ events[i].time > t

\* C38: when the arrival event of a packet is dispatched, the network effect
\* event of that packet has been dispatched before: none is left in the
\* queue, with or without observer, also when both events have the same time.
C38_EffectBeforeArrival ==
    (pc = "loop" /\ event.type = FROM_LAYER3) => EffectsOf(events, event.pkt) = {}

\* C39: the sender's sequence number changes only while the sender awaits an
\* acknowledgment: a packet dispatched to an Idle sender changes neither the
\* sequence number nor the sender's state, and stops no timer.
C39_IdleIgnoresPackets ==
    [][/\ current_seqnum' # current_seqnum => waiting_for_ack
       /\ (NextDispatch(FROM_LAYER3, A) /\ ~waiting_for_ack) =>
             /\ UNCHANGED <<rdt_vars, timer_A, timer_B, tolayer3_count>>
             /\ \A i \in DOMAIN events' : events'[i].cancelled =>
                    \E j \in DOMAIN events :
                        events[j].id = events'[i].id /\ events[j].cancelled]_vars

\* the arrival events queued for the sender that carry a verified
\* acknowledgment of the outstanding packet
GoodAcksQueued ==
    {i \in PendingArrivals(events, A) :
        LET p == pkts[events[i].pkt]
        IN  p.payload = ACK /\ p.seqnum = current_seqnum /\ VerifyChecksum(p)}

\* C40: without observer the sender's timer never expires prematurely: when
\* a timer event is dispatched to the sender, the outstanding packet or its
\* acknowledgment was lost or corrupted, so no packet of the exchange is still
\* on its way, also when the acknowledgment arrives at the timer's expiry time.
C40_NoPrematureTimeout ==
    [][(~visualizer /\ NextDispatch(TIMER_INTERRUPT, A)) =>
          /\ PendingArrivals(events, B) = {}
          /\ GoodAcksQueued = {}]_vars

====
